---- MODULE Spec2Model ----
(***************************************************************************)
(* Model of the dashboard optimisation backend: the JSON item store of a   *)
(* case (DashboardLib/<case>/items.json), the control functions of         *)
(* ai_control_functions.py, item generation and the optimisation control   *)
(* loop run_dashboard_optimization of main.py.                             *)
(***************************************************************************)
EXTENDS Integers, Sequences, FiniteSets, TLC

\* ------------------------------------------------------------------------
\* Bounds of the model and constants of the program
\* ------------------------------------------------------------------------

\* max_iterations of run_dashboard_optimization
max_iterations == 5

\* largest number of tool calls in one oracle response
MaxCalls == 2

\* largest number of tool calls the oracle issues over one run
MaxRunCalls == 6

\* the wall clock runs over the seconds 0..MaxClock
MaxClock == 1

\* largest number of items a store holds
MaxItems == 2

\* largest number of tool calls in one generation response
MaxGen == 2

\* largest number of items of a store the pre-pass is checked on
MaxStore == 3

\* ------------------------------------------------------------------------
\* Values
\* ------------------------------------------------------------------------

\* a key that a JSON object does not have
Missing == "<missing>"

Cases == {"C1", "C2"}

\* the case the modelled requests are made for
ThisCase == "C1"

\* dict.get(key, default)
Get(d, key, default) == IF d[key] = Missing THEN default ELSE d[key]

\* Python truthiness of a string (or of a missing value)
Truthy(s) == s # Missing /\ s # ""

\* a or b, on strings
Or(a, b) == IF Truthy(a) THEN a ELSE b

\* str(value): the integer 5 and the string "5" both print as "5"
IntFive == "int:5"
Str(v) == IF v = IntFive THEN "5" ELSE v

\* a component: the fields the program reads; a field the oracle left out
\* is Missing
Component(type, title, label, value) ==
    [type |-> type, title |-> title, label |-> label, value |-> value]

\* datetime.now().strftime('%Y%m%d_%H%M%S'): one string per second
Stamp(now) == ToString(now)

\* the state of DashboardLib/<case>/: items.json (exists, items) and
\* optimization_log.json (log; NoLog when there is none)
NoLog == [written |-> FALSE, summary |-> "", final_item_count |-> 0,
          optimization_completed |-> FALSE]

\* readable is FALSE when json.load raises on items.json (the text is no
\* JSON); items is then <<>>
NoFile == [exists |-> FALSE, readable |-> TRUE, items |-> <<>>, log |-> NoLog]

\* an items.json whose text is no JSON
Corrupt == [exists |-> TRUE, readable |-> FALSE, items |-> <<>>, log |-> NoLog]

\* a json.load that returns [] for a text that is no JSON
LoadsAlways(fs, case) == TRUE

\* json.load(f) on items.json of a case returns (it raises otherwise)
Loads(fs, case) == fs[case].readable

Ids(items) == {items[i].id : i \in 1..Len(items)}

\* ------------------------------------------------------------------------
\* Results of the control functions
\* ------------------------------------------------------------------------

\* a result dict: has_success tells whether it has a "success" key at all
\* (count: the number the result carries: a count of items, or the numerator
\* of a similarity score whose denominator is den)
Ok(count) ==
    [has_success |-> TRUE, success |-> TRUE, error |-> "", count |-> count,
     den |-> 1]

Fail(error) ==
    [has_success |-> TRUE, success |-> FALSE, error |-> error, count |-> 0,
     den |-> 1]

\* {"error": ...} of execute_control_function: no "success" key
BareError(error) ==
    [has_success |-> FALSE, success |-> FALSE, error |-> error, count |-> 0,
     den |-> 1]

\* result.get("success") as a condition
ResultSuccess(result) == result.has_success /\ result.success

\* the outcome of a control function: the files afterwards and the result
Out(files, result) == [files |-> files, result |-> result]

\* ------------------------------------------------------------------------
\* The item store and the control functions (ai_control_functions.py)
\* ------------------------------------------------------------------------

\* json.dump(items, f) on items.json of a case: the whole document is rewritten
WriteItems(fs, case, items) ==
    [fs EXCEPT ![case] = [@ EXCEPT !.exists = TRUE, !.readable = TRUE,
                                 !.items = items]]

\* [item for item in items if item.get('id') != item_id]
WithoutId(items, item_id) == SelectSeq(items, LAMBDA it : it.id # item_id)

\* the position of the first item with the id, 0 when there is none
RECURSIVE FirstIndex(_, _, _)
FirstIndex(items, item_id, i) ==
    IF i > Len(items) THEN 0
    ELSE IF items[i].id = item_id THEN i
    ELSE FirstIndex(items, item_id, i + 1)

\* list_dashboard_items that fails when there is no items.json
list_dashboard_items_strict(fs, case) ==
    IF ~fs[case].exists THEN Out(fs, Fail("no_file"))
    ELSE IF ~Loads(fs, case) THEN Out(fs, Fail("exception"))
    ELSE Out(fs, Ok(Len(fs[case].items)))

list_dashboard_items(fs, case) ==
    IF ~fs[case].exists THEN Out(fs, Ok(0))
    ELSE IF ~Loads(fs, case) THEN Out(fs, Fail("exception"))
    ELSE Out(fs, Ok(Len(fs[case].items)))

\* delete_dashboard_item without its write of the items that remain
delete_dashboard_item_unsaved(fs, case, item_id) ==
    IF ~fs[case].exists THEN Out(fs, Fail("no_file"))
    ELSE IF ~Loads(fs, case) THEN Out(fs, Fail("exception"))
    ELSE LET items == WithoutId(fs[case].items, item_id) IN
         IF Len(items) = Len(fs[case].items) THEN Out(fs, Fail("not_found"))
         ELSE Out(fs, Ok(Len(items)))

\* delete_dashboard_item without its test that an item was removed
delete_dashboard_item_unchecked(fs, case, item_id) ==
    IF ~fs[case].exists THEN Out(fs, Fail("no_file"))
    ELSE IF ~Loads(fs, case) THEN Out(fs, Fail("exception"))
    ELSE LET items == WithoutId(fs[case].items, item_id) IN
         Out(WriteItems(fs, case, items), Ok(Len(items)))

delete_dashboard_item(fs, case, item_id) ==
    IF ~fs[case].exists THEN Out(fs, Fail("no_file"))
    ELSE IF ~Loads(fs, case) THEN Out(fs, Fail("exception"))
    ELSE LET items == WithoutId(fs[case].items, item_id) IN
         IF Len(items) = Len(fs[case].items) THEN Out(fs, Fail("not_found"))
         ELSE Out(WriteItems(fs, case, items), Ok(Len(items)))

\* update_dashboard_item that also stamps created_at
update_dashboard_item_restamped(fs, case, item_id, updated_component, update_reason, now) ==
    IF ~fs[case].exists THEN Out(fs, Fail("no_file"))
    ELSE IF ~Loads(fs, case) THEN Out(fs, Fail("exception"))
    ELSE LET i == FirstIndex(fs[case].items, item_id, 1) IN
         IF i = 0 THEN Out(fs, Fail("not_found"))
         ELSE Out(WriteItems(fs, case,
                    [fs[case].items EXCEPT
                        ![i].component = updated_component,
                        ![i].created_at = now,
                        ![i].metadata.last_updated = now,
                        ![i].metadata.update_reason = update_reason]),
                  Ok(0))

\* update_dashboard_item that moves the item it updates to the end
update_dashboard_item_moved(fs, case, item_id, updated_component, update_reason, now) ==
    IF ~fs[case].exists THEN Out(fs, Fail("no_file"))
    ELSE IF ~Loads(fs, case) THEN Out(fs, Fail("exception"))
    ELSE LET i == FirstIndex(fs[case].items, item_id, 1) IN
         IF i = 0 THEN Out(fs, Fail("not_found"))
         ELSE Out(WriteItems(fs, case,
                    SubSeq(fs[case].items, 1, i - 1)
                    \o SubSeq(fs[case].items, i + 1, Len(fs[case].items))
                    \o <<[fs[case].items[i] EXCEPT
                            !.component = updated_component,
                            !.metadata.last_updated = now,
                            !.metadata.update_reason = update_reason]>>),
                  Ok(0))

update_dashboard_item(fs, case, item_id, updated_component, update_reason, now) ==
    IF ~fs[case].exists THEN Out(fs, Fail("no_file"))
    ELSE IF ~Loads(fs, case) THEN Out(fs, Fail("exception"))
    ELSE LET i == FirstIndex(fs[case].items, item_id, 1) IN
         IF i = 0 THEN Out(fs, Fail("not_found"))
         ELSE Out(WriteItems(fs, case,
                    [fs[case].items EXCEPT
                        ![i].component = updated_component,
                        ![i].metadata.last_updated = now,
                        ![i].metadata.update_reason = update_reason]),
                  Ok(0))

\* the item create_consolidated_item builds
ConsolidatedItem(case, component, source_item_ids, now) ==
    [id |-> case \o "_consolidated_" \o Stamp(now),
     source_file |-> Missing,
     source_item_ids |-> source_item_ids,
     created_at |-> now,
     analysis_type |-> "consolidated_analysis",
     component |-> component,
     metadata |-> [component_type |-> component.type,
                   last_updated |-> -1,
                   update_reason |-> Missing]]

create_consolidated_item(fs, case, component, source_item_ids, now) ==
    IF fs[case].exists /\ ~Loads(fs, case)
    THEN \* json.load raises inside the try
         Out(fs, Fail("exception"))
    ELSE IF component.type = Missing
    THEN \* component["type"] raises KeyError inside the try
         Out(fs, Fail("exception"))
    ELSE Out(WriteItems(fs, case,
                Append(fs[case].items,
                       ConsolidatedItem(case, component, source_item_ids, now))),
             Ok(Len(source_item_ids)))

\* mark_optimization_complete that also empties items.json
mark_optimization_complete_clearing(fs, case, summary, final_item_count) ==
    Out([WriteItems(fs, case, <<>>) EXCEPT ![case].log =
            [written |-> TRUE, summary |-> summary,
             final_item_count |-> final_item_count,
             optimization_completed |-> TRUE]],
        Ok(final_item_count))

mark_optimization_complete(fs, case, summary, final_item_count) ==
    Out([fs EXCEPT ![case].log =
            [written |-> TRUE, summary |-> summary,
             final_item_count |-> final_item_count,
             optimization_completed |-> TRUE]],
        Ok(final_item_count))

get_item_statistics(fs, case) ==
    IF ~fs[case].exists THEN Out(fs, Ok(0))
    ELSE IF ~Loads(fs, case) THEN Out(fs, Fail("exception"))
    ELSE Out(fs, Ok(Len(fs[case].items)))

\* title.lower().split() as a set of words, for the titles of the model
Words(title) ==
    CASE title = "Revenue" -> {"revenue"}
      [] title = "Total Revenue" -> {"total", "revenue"}
      [] title = "Cost" -> {"cost"}
      [] title = "Revenue|5" -> {"revenue|5"}
      [] OTHER -> {}

\* the title the similarity analysis reads: title, or else label, or else ''
TitleOf(component) == Or(Get(component, "title", ""), Get(component, "label", ""))

\* the similarity score with a title worth 50
SimilarityScoreHeavy(item1, item2) ==
    LET comp1 == item1.component
        comp2 == item2.component
        w1 == Words(TitleOf(comp1))
        w2 == Words(TitleOf(comp2))
        den == IF w1 # {} /\ w2 # {} THEN Cardinality(w1 \cup w2) ELSE 1
        overlap == IF w1 # {} /\ w2 # {} THEN Cardinality(w1 \cap w2) ELSE 0
        source1 == Get(item1, "source_file", "")
        source2 == Get(item2, "source_file", "")
        val1 == Get(comp1, "value", "")
        val2 == Get(comp2, "value", "")
        whole == (IF comp1.type = comp2.type THEN 30 ELSE 0)
                 + (IF source1 = source2 /\ Truthy(source1) THEN 20 ELSE 0)
                 + (IF comp1.type = "metric_card" /\ comp2.type = "metric_card"
                       /\ val1 = val2 /\ Truthy(val1) THEN 10 ELSE 0)
    IN  [num |-> whole * den + 50 * overlap, den |-> den]

\* the similarity score of two items as a fraction num/den (word_overlap is
\* a quotient of set sizes)
SimilarityScore(item1, item2) ==
    LET comp1 == item1.component
        comp2 == item2.component
        w1 == Words(TitleOf(comp1))
        w2 == Words(TitleOf(comp2))
        den == IF w1 # {} /\ w2 # {} THEN Cardinality(w1 \cup w2) ELSE 1
        overlap == IF w1 # {} /\ w2 # {} THEN Cardinality(w1 \cap w2) ELSE 0
        source1 == Get(item1, "source_file", "")
        source2 == Get(item2, "source_file", "")
        val1 == Get(comp1, "value", "")
        val2 == Get(comp2, "value", "")
        whole == (IF comp1.type = comp2.type THEN 30 ELSE 0)
                 + (IF source1 = source2 /\ Truthy(source1) THEN 20 ELSE 0)
                 + (IF comp1.type = "metric_card" /\ comp2.type = "metric_card"
                       /\ val1 = val2 /\ Truthy(val1) THEN 10 ELSE 0)
    IN  [num |-> whole * den + 40 * overlap, den |-> den]

\* next(item for item in items if item.get('id') == item_id), 0 for None
analyze_item_similarity(fs, case, item_id_1, item_id_2) ==
    IF ~fs[case].exists THEN Out(fs, Fail("no_file"))
    ELSE IF ~Loads(fs, case) THEN Out(fs, Fail("exception"))
    ELSE LET i1 == FirstIndex(fs[case].items, item_id_1, 1)
             i2 == FirstIndex(fs[case].items, item_id_2, 1)
         IN  IF i1 = 0 \/ i2 = 0 THEN Out(fs, Fail("not_found"))
             ELSE LET sc == SimilarityScore(fs[case].items[i1], fs[case].items[i2])
                  IN  \* min(similarity_score, 100)
                      Out(fs, [Ok(IF sc.num > 100 * sc.den THEN 100 * sc.den
                                  ELSE sc.num)
                               EXCEPT !.den = sc.den])

\* ------------------------------------------------------------------------
\* Tool calls of the oracle and their dispatch
\* ------------------------------------------------------------------------

NoComponent == Component(Missing, Missing, Missing, Missing)

\* a tool call: the function name and what json.loads makes of its argument
\* text. args is "ok" (an object with the handler's parameters), "bad_fields"
\* (an object with missing or unexpected keys, or no object at all) or
\* "unparsable" (text that is no JSON)
Call(name, args, case, item_id, item_id_2, component, source_item_ids, text, count) ==
    [name |-> name, args |-> args, case_name |-> case, item_id |-> item_id,
     item_id_2 |-> item_id_2, component |-> component,
     source_item_ids |-> source_item_ids, text |-> text,
     final_item_count |-> count]

ListCall(case) ==
    Call("list_dashboard_items", "ok", case, "", "", NoComponent, <<>>, "", 0)
DeleteCall(case, item_id) ==
    Call("delete_dashboard_item", "ok", case, item_id, "", NoComponent, <<>>,
         "duplicate", 0)
UpdateCall(case, item_id, component) ==
    Call("update_dashboard_item", "ok", case, item_id, "", component, <<>>,
         "merged_duplicates", 0)
ConsolidateCall(case, component, source_item_ids) ==
    Call("create_consolidated_item", "ok", case, "", "", component,
         source_item_ids, "merged_similar_metrics", 0)
AnalyzeCall(case, item_id_1, item_id_2) ==
    Call("analyze_item_similarity", "ok", case, item_id_1, item_id_2,
         NoComponent, <<>>, "", 0)
StatisticsCall(case) ==
    Call("get_item_statistics", "ok", case, "", "", NoComponent, <<>>, "", 0)
MarkCall(case, count) ==
    Call("mark_optimization_complete", "ok", case, "", "", NoComponent, <<>>,
         "done", count)
\* a call whose argument object lacks a required key
BadFields(call) == [call EXCEPT !.args = "bad_fields"]
\* a call whose argument text is no JSON
Unparsable(call) == [call EXCEPT !.args = "unparsable"]
\* a name that is no control function
UnknownCall(case) ==
    Call("merge_dashboard_items", "ok", case, "", "", NoComponent, <<>>, "", 0)

ControlFunctions ==
    {"list_dashboard_items", "delete_dashboard_item", "update_dashboard_item",
     "create_consolidated_item", "analyze_item_similarity",
     "get_item_statistics", "mark_optimization_complete"}

\* execute_control_function(function_name, function_args) at the instant now
execute_control_function(fs, call, now) ==
    IF call.name \notin ControlFunctions
    THEN Out(fs, BareError("unknown_function"))
    ELSE IF call.args # "ok"
    THEN \* handler(**function_args) raises TypeError, caught by the except
         Out(fs, BareError("exception"))
    ELSE CASE call.name = "list_dashboard_items" ->
                list_dashboard_items(fs, call.case_name)
           [] call.name = "delete_dashboard_item" ->
                delete_dashboard_item(fs, call.case_name, call.item_id)
           [] call.name = "update_dashboard_item" ->
                update_dashboard_item(fs, call.case_name, call.item_id,
                                      call.component, call.text, now)
           [] call.name = "create_consolidated_item" ->
                create_consolidated_item(fs, call.case_name, call.component,
                                         call.source_item_ids, now)
           [] call.name = "analyze_item_similarity" ->
                analyze_item_similarity(fs, call.case_name, call.item_id,
                                        call.item_id_2)
           [] call.name = "get_item_statistics" ->
                get_item_statistics(fs, call.case_name)
           [] call.name = "mark_optimization_complete" ->
                mark_optimization_complete(fs, call.case_name, call.text,
                                           call.final_item_count)

\* ------------------------------------------------------------------------
\* The deduplication pre-pass of run_dashboard_optimization
\* ------------------------------------------------------------------------

\* unique_key of an item
UniqueKey(item) ==
    LET component == item.component
        item_type == Get(component, "type", "")
        title == Or(Get(component, "title", ""), Get(component, "label", ""))
        value == Str(Get(component, "value", ""))
    IN  IF item_type = "metric_card"
        THEN item_type \o "|" \o title \o "|" \o value
        ELSE item_type \o "|" \o title

\* the for loop keeping, of the items of one key, the one met last
RECURSIVE DedupLoopLastWins(_, _, _, _)
DedupLoopLastWins(items, i, deduplicated_items, seen_combinations) ==
    IF i > Len(items) THEN deduplicated_items
    ELSE IF UniqueKey(items[i]) \notin seen_combinations
    THEN DedupLoopLastWins(items, i + 1, Append(deduplicated_items, items[i]),
                           seen_combinations \cup {UniqueKey(items[i])})
    ELSE DedupLoopLastWins(items, i + 1,
             [k \in 1..Len(deduplicated_items) |->
                 IF UniqueKey(deduplicated_items[k]) = UniqueKey(items[i])
                 THEN items[i] ELSE deduplicated_items[k]],
             seen_combinations)

\* the for loop that forgets the keys it has seen after every duplicate
RECURSIVE DedupLoopForgetful(_, _, _, _)
DedupLoopForgetful(items, i, deduplicated_items, seen_combinations) ==
    IF i > Len(items) THEN deduplicated_items
    ELSE IF UniqueKey(items[i]) \notin seen_combinations
    THEN DedupLoopForgetful(items, i + 1, Append(deduplicated_items, items[i]),
                            seen_combinations \cup {UniqueKey(items[i])})
    ELSE DedupLoopForgetful(items, i + 1, deduplicated_items, {})

\* the for loop over items: deduplicated_items and seen_combinations after
\* the items from position i on
RECURSIVE DedupLoop(_, _, _, _)
DedupLoop(items, i, deduplicated_items, seen_combinations) ==
    IF i > Len(items) THEN deduplicated_items
    ELSE IF UniqueKey(items[i]) \notin seen_combinations
    THEN DedupLoop(items, i + 1, Append(deduplicated_items, items[i]),
                   seen_combinations \cup {UniqueKey(items[i])})
    ELSE DedupLoop(items, i + 1, deduplicated_items, seen_combinations)

\* a pre-pass that keeps every item
DeduplicateNothing(items) == items

Deduplicate(items) == DedupLoop(items, 1, <<>>, {})

\* ------------------------------------------------------------------------
\* State
\* ------------------------------------------------------------------------

VARIABLES
    files,                  \* case -> items.json and optimization_log.json
    now,                    \* the wall clock, in seconds
    pc,                     \* where the request being served stands
    runs,                   \* history: the runs started so far: 0, 1, or 2
                            \*   for two and more
    case_name,              \* the case of the run
    loaded,                 \* history: the items the run loaded at its start
    items,                  \* run_dashboard_optimization: items
    duplicates_removed,     \*   duplicates_removed
    iteration_count,        \*   iteration_count
    optimization_complete,  \*   optimization_complete
    optimization_actions,   \*   optimization_actions, the action log
    iteration_actions,      \*   iteration_actions
    tool_calls,             \*   the tool calls of the response still to run
    oracle_calls,           \* history: oracle requests the run has made
    exit,                   \* history: the statement the run returned from
    report                  \* the dict the run returned

run_vars == <<runs, case_name, loaded, items, duplicates_removed, iteration_count,
              optimization_complete, optimization_actions, iteration_actions,
              tool_calls, oracle_calls, exit, report>>

vars == <<files, now, pc, runs, case_name, loaded, items, duplicates_removed,
          iteration_count, optimization_complete, optimization_actions,
          iteration_actions, tool_calls, oracle_calls, exit, report>>

\* ------------------------------------------------------------------------
\* Reports of run_dashboard_optimization
\* ------------------------------------------------------------------------

\* keys: "none" (no report yet), "error" (success, error), "empty" (the
\* 'No items to optimize' report) or "full" (the report after the loop)
NoReport ==
    [keys |-> "none", success |-> FALSE, original_item_count |-> 0,
     final_item_count |-> 0, items_removed |-> 0,
     duplicates_removed_preprocessing |-> 0, iterations |-> 0,
     optimization_completed |-> FALSE]

ErrorReport == [NoReport EXCEPT !.keys = "error", !.success = FALSE]

EmptyReport ==
    [NoReport EXCEPT !.keys = "empty", !.success = TRUE, !.final_item_count = 0]

\* the report with the count of the items loaded at the start of the run
FullReportTally(its, removed, final_items, iterations, complete) ==
    [keys |-> "full", success |-> TRUE,
     original_item_count |-> Len(its) + removed,
     final_item_count |-> Len(its),
     items_removed |-> (Len(its) + removed) - Len(final_items),
     duplicates_removed_preprocessing |-> removed,
     iterations |-> iterations,
     optimization_completed |-> complete]

\* the report with the iterations counted from 0
FullReportFromZero(its, removed, final_items, iterations, complete) ==
    [keys |-> "full", success |-> TRUE,
     original_item_count |-> Len(its) + removed,
     final_item_count |-> Len(final_items),
     items_removed |-> (Len(its) + removed) - Len(final_items),
     duplicates_removed_preprocessing |-> removed,
     iterations |-> iterations - 1,
     optimization_completed |-> complete]

\* the report whose items_removed leaves out the removals of the pre-pass
FullReportGross(its, removed, final_items, iterations, complete) ==
    [keys |-> "full", success |-> TRUE,
     original_item_count |-> Len(its) + removed,
     final_item_count |-> Len(final_items),
     items_removed |-> Len(its) - Len(final_items),
     duplicates_removed_preprocessing |-> removed,
     iterations |-> iterations,
     optimization_completed |-> complete]

\* the report built after the loop, final_items being the store as re-read
FullReport(its, removed, final_items, iterations, complete) ==
    [keys |-> "full", success |-> TRUE,
     original_item_count |-> Len(its) + removed,
     final_item_count |-> Len(final_items),
     items_removed |-> (Len(its) + removed) - Len(final_items),
     duplicates_removed_preprocessing |-> removed,
     iterations |-> iterations,
     optimization_completed |-> complete]

\* final_items: items.json re-read, [] when it is not there or json.load
\* raises
FinalItems(fs, case) ==
    IF fs[case].exists /\ fs[case].readable THEN fs[case].items ELSE <<>>

\* ------------------------------------------------------------------------
\* Init
\* ------------------------------------------------------------------------

Init ==
    /\ files = [c \in Cases |-> NoFile]
    /\ now = 0
    /\ pc = "idle"
    /\ runs = 0
    /\ case_name = ThisCase
    /\ loaded = <<>>
    /\ items = <<>>
    /\ duplicates_removed = 0
    /\ iteration_count = 0
    /\ optimization_complete = FALSE
    /\ optimization_actions = <<>>
    /\ iteration_actions = <<>>
    /\ tool_calls = <<>>
    /\ oracle_calls = 0
    /\ exit = "none"
    /\ report = NoReport

\* ------------------------------------------------------------------------
\* The server
\* ------------------------------------------------------------------------

\* a server that takes up a request whatever it is doing
ServerFreeAlways == TRUE

\* the server can take up a request: it is serving none. Every handler is
\* a coroutine of the one event loop and never suspends (its only await,
\* of run_dashboard_optimization, runs that coroutine to its end, and the
\* oracle request is a blocking call), so a request is taken up only when
\* the one before has returned
ServerFree == pc = "idle"

\* ------------------------------------------------------------------------
\* run_dashboard_optimization
\* ------------------------------------------------------------------------

\* the while loop without its cap
LoopConditionNoCap(complete, count) == ~complete

\* the condition of the while loop
LoopCondition(complete, count) == ~complete /\ count < max_iterations

\* the test without its look at the result
CompletesRunAnyResult(function_name, result) ==
    function_name = "mark_optimization_complete"

\* the test never met
CompletesRunNever(function_name, result) == FALSE

\* the test after an action: mark_optimization_complete reporting success
CompletesRun(function_name, result) ==
    function_name = "mark_optimization_complete" /\ ResultSuccess(result)

\* the record appended to iteration_actions and optimization_actions
ActionRecord(iteration, call, result) ==
    [iteration |-> iteration, function |-> call.name, arguments |-> call,
     result |-> result]

\* the code after the loop: the store is re-read and the report returned.
\* fs is the store, how the way the loop was left
Finish(fs, how, count, complete) ==
    /\ pc' = "done"
    /\ exit' = how
    /\ report' = FullReport(items, duplicates_removed, FinalItems(fs, case_name),
                            count, complete)

\* the outer except: the run returns success = False and an error string.
\* how names the statement that raised
Abort(how) ==
    /\ pc' = "done"
    /\ exit' = how
    /\ report' = ErrorReport

\* run_dashboard_optimization(case) up to its first oracle request, on the
\* store fs: the existence check, the load, the empty case and the pre-pass
RunStartOn(fs, case) ==
    /\ case_name' = case
    /\ iteration_count' = 0
    /\ optimization_complete' = FALSE
    /\ optimization_actions' = <<>>
    /\ iteration_actions' = <<>>
    /\ tool_calls' = <<>>
    /\ oracle_calls' = 0
    /\ runs' = IF runs < 2 THEN runs + 1 ELSE 2
    /\ loaded' = FinalItems(fs, case)
    /\ IF ~fs[case].exists
       THEN /\ files' = fs
            /\ items' = <<>>
            /\ duplicates_removed' = 0
            /\ pc' = "done"
            /\ exit' = "no_file"
            /\ report' = ErrorReport
       ELSE IF ~Loads(fs, case)
       THEN \* json.load raises: the outer except
            /\ files' = fs
            /\ items' = <<>>
            /\ duplicates_removed' = 0
            /\ pc' = "done"
            /\ exit' = "load_exception"
            /\ report' = ErrorReport
       ELSE IF fs[case].items = <<>>
       THEN /\ files' = fs
            /\ items' = <<>>
            /\ duplicates_removed' = 0
            /\ pc' = "done"
            /\ exit' = "empty"
            /\ report' = EmptyReport
       ELSE LET deduplicated_items == Deduplicate(fs[case].items)
                removed == Len(fs[case].items) - Len(deduplicated_items)
            IN  /\ files' = IF removed > 0
                            THEN WriteItems(fs, case, deduplicated_items)
                            ELSE fs
                /\ items' = deduplicated_items
                /\ duplicates_removed' = removed
                /\ pc' = "oracle"
                /\ exit' = "none"
                /\ report' = NoReport

\* a request that runs the optimization of a case on the store as it is
RunOptimization ==
    /\ ServerFree
    /\ RunStartOn(files, ThisCase)
    /\ UNCHANGED now

\* the responses of an oracle that picks its tool calls in the set calls:
\* at most MaxCalls of them, and at most MaxRunCalls over the run
Responses(calls) ==
    LET most == IF MaxRunCalls - Len(optimization_actions) < MaxCalls
                THEN MaxRunCalls - Len(optimization_actions)
                ELSE MaxCalls
    IN  UNION {[1..n -> calls] : n \in 0..most}

\* one turn of the while loop up to the response: the oracle request raises,
\* or returns a response without choices
OracleFails ==
    /\ pc = "oracle"
    /\ iteration_count' = iteration_count + 1
    /\ oracle_calls' = oracle_calls + 1
    /\ Abort("oracle_exception")
    /\ UNCHANGED <<files, now, runs, case_name, loaded, items,
                   duplicates_removed,
                   optimization_complete, optimization_actions,
                   iteration_actions, tool_calls>>

\* one turn of the while loop up to the response: the oracle answers with
\* tool calls out of calls, or with none (the else: break)
OracleResponds(calls) ==
    /\ pc = "oracle"
    /\ iteration_count' = iteration_count + 1
    /\ oracle_calls' = oracle_calls + 1
    /\ iteration_actions' = <<>>
    /\ \E response \in Responses(calls) :
          /\ tool_calls' = response
          /\ IF response = <<>>
             THEN Finish(files, "break", iteration_count + 1, optimization_complete)
             ELSE /\ pc' = "calls"
                  /\ UNCHANGED <<exit, report>>
    /\ UNCHANGED <<files, now, runs, case_name, loaded, items,
                   duplicates_removed,
                   optimization_complete, optimization_actions>>

\* the body of the for loop for the next tool call of the response, and
\* what follows it when it is the last one or it completes the run.
\* execute_control_function returns a dict for every input, so the inner
\* except (continue) is never entered and every call that runs is logged
ExecuteToolCall ==
    /\ pc = "calls"
    /\ tool_calls # <<>>
    /\ LET call == Head(tool_calls) IN
       IF call.args = "unparsable"
       THEN \* json.loads raises outside the inner try
            /\ Abort("json_exception")
            /\ UNCHANGED <<files, optimization_complete, optimization_actions,
                           iteration_actions, tool_calls>>
       ELSE LET out == execute_control_function(files, call, now)
                action == ActionRecord(iteration_count, call, out.result)
                done == CompletesRun(call.name, out.result)
            IN  /\ files' = out.files
                /\ iteration_actions' = Append(iteration_actions, action)
                /\ optimization_actions' = Append(optimization_actions, action)
                /\ optimization_complete' = (optimization_complete \/ done)
                /\ IF done
                   THEN \* break; the while condition is false
                        /\ tool_calls' = Tail(tool_calls)
                        /\ Finish(out.files, "cond", iteration_count, TRUE)
                   ELSE IF Tail(tool_calls) # <<>>
                   THEN /\ tool_calls' = Tail(tool_calls)
                        /\ UNCHANGED <<pc, exit, report>>
                   ELSE /\ tool_calls' = <<>>
                        /\ IF iteration_actions' = <<>>
                           THEN Finish(out.files, "break", iteration_count,
                                       optimization_complete)
                           ELSE IF LoopCondition(optimization_complete,
                                                 iteration_count)
                           THEN /\ pc' = "oracle"
                                /\ UNCHANGED <<exit, report>>
                           ELSE Finish(out.files, "cond", iteration_count,
                                       optimization_complete)
    /\ UNCHANGED <<now, runs, case_name, loaded, items, duplicates_removed,
                   iteration_count, oracle_calls>>

\* the clock advances
Tick ==
    /\ now < MaxClock
    /\ now' = now + 1
    /\ UNCHANGED <<files, pc>>
    /\ UNCHANGED run_vars

\* ------------------------------------------------------------------------
\* generate_dashboard_from_file
\* ------------------------------------------------------------------------

\* a tool call of the generation response: the function and the component
\* execute_function_call builds from its arguments; ok is FALSE when
\* execute_function_call raises (unknown function, wrong arguments)
GenCall(function_name, component, ok) ==
    [function_name |-> function_name, component |-> component, ok |-> ok]

\* the item built for a component
GeneratedItem(case, filename, function_name, component, at) ==
    [id |-> case \o "_" \o filename \o "_" \o function_name \o "_" \o Stamp(at),
     source_file |-> filename,
     source_item_ids |-> <<>>,
     created_at |-> at,
     analysis_type |-> "file_analysis",
     component |-> component,
     metadata |-> [component_type |-> component.type,
                   last_updated |-> -1,
                   update_reason |-> Missing]]

\* dashboard_items: one item per tool call that did not raise; the calls
\* from position late on are served one second after the others
RECURSIVE DashboardItems(_, _, _, _, _, _)
DashboardItems(case, filename, calls, i, late, at) ==
    IF i > Len(calls) THEN <<>>
    ELSE LET rest == DashboardItems(case, filename, calls, i + 1, late, at)
             t == IF i >= late THEN at + 1 ELSE at
         IN  IF calls[i].ok
             THEN <<GeneratedItem(case, filename, calls[i].function_name,
                                  calls[i].component, t)>> \o rest
             ELSE rest

\* the handler: the items of the response are appended to items.json, which
\* is created when missing, and the optimization runs on the result
Generate(filename, gens) ==
    /\ ServerFree
    /\ \E n \in 0..MaxGen :
       \E calls \in [1..n -> gens] :
       \E late \in (2..n) \cup {n + 1} :
          /\ late <= n => now < MaxClock
          /\ LET existing_items == FinalItems(files, ThisCase)
                 dashboard_items ==
                     DashboardItems(ThisCase, filename, calls, 1, late, now)
             IN  /\ Len(existing_items) + Len(dashboard_items) <= MaxItems
                 /\ now' = IF late <= n THEN now + 1 ELSE now
                 /\ RunStartOn(WriteItems(files, ThisCase,
                                          existing_items \o dashboard_items),
                               ThisCase)

\* the response is returned and the server waits for the next request
Return ==
    /\ pc = "done"
    /\ pc' = "idle"
    /\ case_name' = ThisCase
    /\ loaded' = <<>>
    /\ items' = <<>>
    /\ duplicates_removed' = 0
    /\ iteration_count' = 0
    /\ optimization_complete' = FALSE
    /\ optimization_actions' = <<>>
    /\ iteration_actions' = <<>>
    /\ tool_calls' = <<>>
    /\ oracle_calls' = 0
    /\ exit' = "none"
    /\ report' = NoReport
    /\ UNCHANGED <<files, now, runs>>

\* ------------------------------------------------------------------------
\* Specification of the control loop: one generation and its run, with an
\* oracle that picks among LoopCalls
\* ------------------------------------------------------------------------

RevenueCard == Component("metric_card", Missing, "Revenue", "5M")

LoopGens == {GenCall("create_metric_card", RevenueCard, TRUE)}

\* the id generation gives a metric card of file f1 in second 0
CardId == "C1_f1_create_metric_card_0"

LoopCalls ==
    {DeleteCall(ThisCase, CardId),
     BadFields(MarkCall(ThisCase, 0)),
     MarkCall(ThisCase, 7),
     Unparsable(ListCall(ThisCase))}

LoopNext ==
    \/ Generate("f1", LoopGens)
    \/ OracleFails
    \/ OracleResponds(LoopCalls)
    \/ ExecuteToolCall

LoopSpec == Init /\ [][LoopNext]_vars

\* ------------------------------------------------------------------------
\* Specification of the control loop with an oracle whose tool calls fail:
\* an absent id, an unknown function, a component without a type
\* ------------------------------------------------------------------------

FailingCalls ==
    {DeleteCall(ThisCase, CardId),
     UnknownCall(ThisCase),
     ConsolidateCall(ThisCase, Component(Missing, "Revenue", Missing, Missing),
                     <<CardId>>)}

FailingNext ==
    \/ Generate("f1", LoopGens)
    \/ OracleFails
    \/ OracleResponds(FailingCalls)
    \/ ExecuteToolCall

FailingSpec == Init /\ [][FailingNext]_vars

\* ------------------------------------------------------------------------
\* Specification of the store: generations, runs whose oracle stays silent,
\* and the control functions applied to the store in any order
\* ------------------------------------------------------------------------

\* execute_control_function called on its own
ControlCall(call) ==
    /\ ServerFree
    /\ Len(FinalItems(files, call.case_name)) < MaxItems
         \/ call.name # "create_consolidated_item"
    /\ files' = execute_control_function(files, call, now).files
    /\ UNCHANGED <<now, pc>>
    /\ UNCHANGED run_vars

CostTable == Component("data_table", "Cost", Missing, Missing)
TotalCard == Component("metric_card", Missing, "Total Revenue", IntFive)
\* a component the oracle sends without a type
Untyped == Component(Missing, "Revenue", Missing, Missing)

Gens ==
    {GenCall("create_metric_card", RevenueCard, TRUE),
     GenCall("create_metric_card", TotalCard, TRUE),
     GenCall("create_data_table", CostTable, TRUE),
     GenCall("create_pie_chart", NoComponent, FALSE)}

\* an id no item has
AbsentId == "C1_f1_create_list_items_0"

\* the tool calls an oracle can make on the store fs
StoreCalls(fs) ==
    LET ids == Ids(FinalItems(fs, ThisCase)) \cup {AbsentId} IN
         {ListCall(ThisCase), StatisticsCall(ThisCase), MarkCall(ThisCase, 0),
          UnknownCall(ThisCase), BadFields(ListCall(ThisCase))}
    \cup {DeleteCall(ThisCase, id) : id \in ids}
    \cup {UpdateCall(ThisCase, id, c) : id \in ids, c \in {TotalCard, Untyped}}
    \cup {ConsolidateCall(ThisCase, comp, srcs) :
            comp \in {TotalCard, Untyped}, srcs \in {<<>>, <<AbsentId>>}}
    \cup {AnalyzeCall(ThisCase, id1, id2) : id1 \in ids, id2 \in ids}

Next ==
    \/ Generate("f1", Gens)
    \/ RunOptimization
    \/ OracleFails
    \/ OracleResponds({})
    \/ \E call \in StoreCalls(files) : ControlCall(call)
    \/ Tick
    \/ Return

Spec == Init /\ [][Next]_vars

\* ------------------------------------------------------------------------
\* The states a run ends in
\* ------------------------------------------------------------------------

\* the run left the loop by its condition with optimization_complete set
COMPLETED == pc = "done" /\ exit = "cond" /\ optimization_complete

\* the run left the loop by its condition at the iteration cap
EXHAUSTED == pc = "done" /\ exit = "cond" /\ ~optimization_complete

\* the run left the loop by a break: a turn without actions
IDLE_STOP == pc = "done" /\ exit = "break"

\* the run entered the while loop
EnteredLoop == oracle_calls >= 1

Last(seq) == seq[Len(seq)]

\* a record of the log is a mark_optimization_complete that reported success
MarkedComplete(record) ==
    /\ record.function = "mark_optimization_complete"
    /\ record.result.has_success
    /\ record.result.success

\* ------------------------------------------------------------------------
\* C1
\* ------------------------------------------------------------------------

\* a measure of the work a run has left: the turns up to the cap, each
\* worth more than a response holds, plus the tool calls still to run
Rank == (max_iterations - iteration_count) * (MaxCalls + 1) + Len(tool_calls)

\* C1: a run makes at most max_iterations + 1 oracle requests whatever the
\* oracle answers, and it terminates: every step of a run either ends it or
\* lowers Rank, which never goes below 0.
C1_BoundedOracleCalls ==
    /\ [](oracle_calls <= max_iterations + 1)
    /\ [][(pc = "oracle" \/ pc = "calls") =>
            (pc' = "done" \/ (Rank' >= 0 /\ Rank' < Rank))]_vars

\* a run that has made max_iterations oracle requests, each answered with
\* tool calls, the last of which has run
C1_Witness ==
    /\ EXHAUSTED
    /\ oracle_calls = max_iterations
    /\ Len(optimization_actions) > max_iterations

\* ------------------------------------------------------------------------
\* C2
\* ------------------------------------------------------------------------

\* every answer the oracle has given so far was a mark_optimization_complete
\* whose result reported success
OracleAlwaysMarked ==
    /\ exit \notin {"oracle_exception", "json_exception", "break"}
    /\ \A i \in 1..Len(optimization_actions) :
          MarkedComplete(optimization_actions[i])

\* the run ended COMPLETED after one iteration and one oracle request
CompletedInOne ==
    /\ COMPLETED
    /\ iteration_count = 1
    /\ oracle_calls = 1
    /\ report.keys = "full"
    /\ report.success
    /\ report.iterations = 1
    /\ report.optimization_completed

\* the run whose first answer was delete_dashboard_item(CardId) then
\* mark_optimization_complete, on a store that held the card only
DeleteThenMark ==
    /\ pc = "done"
    /\ Len(items) = 1
    /\ items[1].id = CardId
    /\ Len(optimization_actions) >= 2
    /\ optimization_actions[1].iteration = 1
    /\ optimization_actions[1].arguments = DeleteCall(ThisCase, CardId)
    /\ optimization_actions[2].iteration = 1
    /\ optimization_actions[2].arguments = MarkCall(ThisCase, 7)

\* C2 as claimed: on an existing store, a run whose oracle always answers
\* mark_optimization_complete ends COMPLETED after one iteration. Refuted
\* by the existing store that is empty: the run returns before the loop.
C2_AsClaimed ==
    (pc = "done" /\ exit # "no_file" /\ OracleAlwaysMarked) => CompletedInOne

\* C2: on an existing store that holds at least one item, a run whose oracle
\* always answers mark_optimization_complete (reporting success) ends
\* COMPLETED after exactly one iteration and one oracle request, with
\* optimization_completed true; and the turn delete(a), mark complete on a
\* store holding only a ends COMPLETED after one iteration with no item left.
C2_MarkCompletesInOne ==
    /\ (pc = "done" /\ exit \notin {"no_file", "empty"} /\ OracleAlwaysMarked)
          => CompletedInOne
    /\ DeleteThenMark =>
          /\ CompletedInOne
          /\ Len(optimization_actions) = 2
          /\ FinalItems(files, case_name) = <<>>
          /\ report.final_item_count = 0

\* the run of the scenario, completed with an empty store
C2_Witness ==
    /\ DeleteThenMark
    /\ COMPLETED
    /\ report.final_item_count = 0

\* ------------------------------------------------------------------------
\* C3
\* ------------------------------------------------------------------------

\* every answer the oracle has given so far held no tool call
OracleAlwaysSilent ==
    /\ exit \notin {"oracle_exception", "json_exception"}
    /\ optimization_actions = <<>>

\* the run ended by IDLE_STOP after one iteration, with nothing logged and
\* the store as the pre-pass left it
IdleInOne ==
    /\ IDLE_STOP
    /\ iteration_count = 1
    /\ oracle_calls = 1
    /\ optimization_actions = <<>>
    /\ files[case_name].items = items
    /\ report.keys = "full"
    /\ report.success
    /\ report.iterations = 1
    /\ ~report.optimization_completed

\* C3 as claimed: on an existing store, a run whose oracle always answers
\* without actions ends by IDLE_STOP after one iteration. Refuted by the
\* existing store that is empty: the run returns before the loop.
C3_AsClaimed ==
    (pc = "done" /\ exit # "no_file" /\ OracleAlwaysSilent) => IdleInOne

\* C3: on an existing store that holds at least one item, a run whose oracle
\* always answers without actions ends by IDLE_STOP after exactly one
\* iteration and one oracle request, with an empty action log and the store
\* unchanged by the loop.
C3_SilentStopsInOne ==
    (pc = "done" /\ exit \notin {"no_file", "empty"} /\ OracleAlwaysSilent)
       => IdleInOne

\* a run stopped by a first answer without actions, after a pre-pass that
\* removed a duplicate and left one item
C3_Witness ==
    /\ IDLE_STOP
    /\ OracleAlwaysSilent
    /\ duplicates_removed = 1
    /\ Len(files[case_name].items) = 1

\* ------------------------------------------------------------------------
\* C4
\* ------------------------------------------------------------------------

\* C4: when the tool call that runs is a mark_optimization_complete, it is
\* logged; if its result reports success the run is COMPLETED at once, the
\* rest of the response is left unrun and no oracle request follows; if its
\* result does not report success the run is not completed and goes on with
\* the next tool call or the next turn. A COMPLETED run has the successful
\* mark as the last record of its log, and no other.
C4_MarkEndsRunAtOnce ==
    /\ [](COMPLETED =>
            /\ optimization_actions # <<>>
            /\ \A i \in 1..Len(optimization_actions) :
                  MarkedComplete(optimization_actions[i])
                     <=> i = Len(optimization_actions)
            /\ oracle_calls = Last(optimization_actions).iteration
            /\ report.optimization_completed)
    /\ [][(/\ pc = "calls"
           /\ Head(tool_calls).name = "mark_optimization_complete"
           /\ Head(tool_calls).args # "unparsable") =>
          /\ Len(optimization_actions') = Len(optimization_actions) + 1
          /\ Last(optimization_actions').arguments = Head(tool_calls)
          /\ IF Head(tool_calls).args = "ok"
             THEN /\ MarkedComplete(Last(optimization_actions'))
                  /\ COMPLETED'
                  /\ tool_calls' = Tail(tool_calls)
                  /\ oracle_calls' = oracle_calls
                  /\ report'.iterations = iteration_count
             ELSE /\ ~MarkedComplete(Last(optimization_actions'))
                  /\ ~optimization_complete'
                  /\ Tail(tool_calls) # <<>> =>
                        pc' = "calls" /\ tool_calls' = Tail(tool_calls)
                  /\ (Tail(tool_calls) = <<>> /\ iteration_count < max_iterations)
                        => pc' = "oracle"]_vars

\* a run completed by a mark that left a tool call of its response unrun,
\* after a mark that had not reported success
C4_Witness ==
    /\ COMPLETED
    /\ tool_calls # <<>>
    /\ \E i \in 1..Len(optimization_actions) :
          /\ optimization_actions[i].function = "mark_optimization_complete"
          /\ ~MarkedComplete(optimization_actions[i])

\* ------------------------------------------------------------------------
\* C5
\* ------------------------------------------------------------------------

\* a tool call that must fail on the store fs: a delete of an absent id,
\* a function that does not exist, a consolidation without component type
MustFail(call, fs) ==
    /\ call.args = "ok"
    /\ \/ /\ call.name = "delete_dashboard_item"
          /\ call.item_id \notin Ids(FinalItems(fs, call.case_name))
       \/ call.name \notin ControlFunctions
       \/ /\ call.name = "create_consolidated_item"
          /\ call.component.type = Missing

\* C5: a tool call that fails is appended to the action log as a record
\* that holds its failure result, leaves the store as it was and does not
\* end the run: the next tool call of the turn runs, and after the last one
\* the run goes to the next turn (or ends EXHAUSTED at the cap).
C5_FailedActionLoggedLoopContinues ==
    [][(pc = "calls" /\ MustFail(Head(tool_calls), files)) =>
          /\ Len(optimization_actions') = Len(optimization_actions) + 1
          /\ SubSeq(optimization_actions', 1, Len(optimization_actions))
                = optimization_actions
          /\ Last(optimization_actions').iteration = iteration_count
          /\ Last(optimization_actions').function = Head(tool_calls).name
          /\ Last(optimization_actions').arguments = Head(tool_calls)
          /\ ~ResultSuccess(Last(optimization_actions').result)
          /\ Last(optimization_actions').result.error # ""
          /\ files' = files
          /\ report'.keys # "error"
          /\ ~optimization_complete'
          /\ Tail(tool_calls) # <<>> =>
                pc' = "calls" /\ tool_calls' = Tail(tool_calls)
          /\ (Tail(tool_calls) = <<>> /\ iteration_count < max_iterations)
                => (pc' = "oracle" /\ iteration_count' = iteration_count)
          /\ (Tail(tool_calls) = <<>> /\ iteration_count = max_iterations)
                => EXHAUSTED']_vars

\* a log that holds the three failures, one of them followed by another
\* action of its turn and by an action of a later turn
C5_Witness ==
    /\ \E i \in 1..Len(optimization_actions) :
          optimization_actions[i].result.error = "not_found"
    /\ \E i \in 1..Len(optimization_actions) :
          optimization_actions[i].result.error = "unknown_function"
    /\ \E i \in 1..Len(optimization_actions) :
          optimization_actions[i].result.error = "exception"
    /\ Len(optimization_actions) >= 3
    /\ ~ResultSuccess(optimization_actions[1].result)
    /\ optimization_actions[2].iteration = 1
    /\ Last(optimization_actions).iteration > 1

\* ------------------------------------------------------------------------
\* C6, C7, C8
\* ------------------------------------------------------------------------

\* C6 as claimed: a run whose oracle request fails ends like a turn without
\* actions, with the report of a finished loop and success = true.
C6_AsClaimed ==
    exit = "oracle_exception" => (report.keys = "full" /\ report.success)

\* C7 as claimed: a tool call with malformed arguments (unparsable text,
\* missing or unexpected fields) is logged with a failure result and the
\* run does not abort.
C7_AsClaimed ==
    [][(pc = "calls" /\ Head(tool_calls).args # "ok") =>
          /\ Len(optimization_actions') = Len(optimization_actions) + 1
          /\ Last(optimization_actions').arguments = Head(tool_calls)
          /\ ~ResultSuccess(Last(optimization_actions').result)
          /\ report'.keys # "error"]_vars

\* C8 as claimed: a run that entered the loop ends in exactly one of
\* COMPLETED, IDLE_STOP and EXHAUSTED, its report has success = true, and
\* optimization_completed is true exactly when it is COMPLETED.
C8_AsClaimed ==
    (pc = "done" /\ EnteredLoop) =>
       /\ COMPLETED \/ IDLE_STOP \/ EXHAUSTED
       /\ ~(COMPLETED /\ IDLE_STOP)
       /\ ~(COMPLETED /\ EXHAUSTED)
       /\ ~(IDLE_STOP /\ EXHAUSTED)
       /\ report.success
       /\ report.optimization_completed <=> COMPLETED

\* ------------------------------------------------------------------------
\* C9
\* ------------------------------------------------------------------------

\* C9: the final_item_count of a report is the number of items of the store
\* as it is when the run has ended.
C9_FinalCountIsStoreSize ==
    (pc = "done" /\ report.keys \in {"full", "empty"}) =>
       report.final_item_count = Len(FinalItems(files, case_name))

\* a completed run whose mark passed another count than the store holds,
\* after a delete that succeeded and one that failed
C9_Witness ==
    /\ COMPLETED
    /\ Last(optimization_actions).arguments.final_item_count
          # report.final_item_count
    /\ Len(items) # report.final_item_count
    /\ \E i \in 1..Len(optimization_actions) :
          optimization_actions[i].result.error = "not_found"

\* ------------------------------------------------------------------------
\* C10
\* ------------------------------------------------------------------------

\* C10 as claimed: no two items of a store have the same id.
C10_AsClaimed ==
    \A c \in Cases :
       \A i, j \in 1..Len(files[c].items) :
          i # j => files[c].items[i].id # files[c].items[j].id

\* ------------------------------------------------------------------------
\* C11
\* ------------------------------------------------------------------------

\* the ids a tool call can name on the store fs: those of its items and one
\* that no item has
KnownIds(fs) == Ids(FinalItems(fs, ThisCase)) \cup {AbsentId}

\* every item of before whose id is not item_id is an item of after
KeepsOthers(before, after, item_id) ==
    \A i \in 1..Len(before) :
       before[i].id # item_id => \E j \in 1..Len(after) : after[j] = before[i]

\* C11 as claimed: on every store, delete_dashboard_item of a present id
\* leaves one item less and every item with another id; of an absent id it
\* leaves the store as it is and returns a failure.
C11_AsClaimed ==
    \A id \in KnownIds(files) :
       LET before == FinalItems(files, ThisCase)
           out == execute_control_function(files, DeleteCall(ThisCase, id), now)
           after == FinalItems(out.files, ThisCase)
       IN  IF id \in Ids(before)
           THEN /\ ResultSuccess(out.result)
                /\ Len(after) = Len(before) - 1
                /\ KeepsOthers(before, after, id)
           ELSE /\ out.files = files
                /\ out.result.has_success
                /\ ~out.result.success
                /\ out.result.error \in {"not_found", "no_file"}

\* ------------------------------------------------------------------------
\* C12
\* ------------------------------------------------------------------------

\* Specification of the store under updates: generations, runs whose oracle
\* stays silent, and update_dashboard_item on any id with a component that
\* has a type or has none
UpdateGens ==
    {GenCall("create_metric_card", RevenueCard, TRUE),
     GenCall("create_data_table", CostTable, TRUE)}

UpdateCalls(fs) ==
    {UpdateCall(ThisCase, id, c) : id \in KnownIds(fs), c \in {TotalCard, Untyped}}

UpdateNext ==
    \/ Generate("f1", UpdateGens)
    \/ OracleResponds({})
    \/ \E call \in UpdateCalls(files) : ControlCall(call)
    \/ Tick
    \/ Return

UpdateSpec == Init /\ [][UpdateNext]_vars

\* the item after is the item before with its component replaced by
\* component and its metadata stamped with the reason
UpdatedFrom(before, after, component, update_reason) ==
    /\ after.id = before.id
    /\ after.created_at = before.created_at
    /\ after.source_file = before.source_file
    /\ after.source_item_ids = before.source_item_ids
    /\ after.analysis_type = before.analysis_type
    /\ after.metadata.component_type = before.metadata.component_type
    /\ after.component = component
    /\ after.metadata.update_reason = update_reason

\* C12: on every store, update_dashboard_item of a present id succeeds and
\* changes one item that has the id: its id, created_at and provenance
\* fields (source_file, source_item_ids, analysis_type) stay, its component
\* becomes the given component whatever it was, and metadata.update_reason
\* becomes the given reason; every other item stays as it was. On an absent
\* id (or an absent store) the store stays as it was and the result is a
\* failure.
C12_UpdateReplacesComponentOnly ==
    \A call \in UpdateCalls(files) :
       LET before == FinalItems(files, ThisCase)
           out == execute_control_function(files, call, now)
           after == FinalItems(out.files, ThisCase)
       IN  IF call.item_id \in Ids(before)
           THEN /\ ResultSuccess(out.result)
                /\ Len(after) = Len(before)
                /\ \E k \in 1..Len(before) :
                      /\ before[k].id = call.item_id
                      /\ UpdatedFrom(before[k], after[k], call.component,
                                     call.text)
                      /\ \A j \in 1..Len(before) : j # k => after[j] = before[j]
           ELSE /\ out.files = files
                /\ out.result.has_success
                /\ ~out.result.success

\* a store in which an update has replaced the component of a data table
\* made in second 0 by a metric card, after the clock went on, next to an
\* item that no update touched
C12_Witness ==
    /\ now > 0
    /\ \E i, j \in 1..Len(files[ThisCase].items) :
          /\ files[ThisCase].items[i].id = "C1_f1_create_data_table_0"
          /\ files[ThisCase].items[i].created_at = 0
          /\ files[ThisCase].items[i].component = TotalCard
          /\ files[ThisCase].items[i].metadata.update_reason = "merged_duplicates"
          /\ files[ThisCase].items[i].metadata.last_updated = now
          /\ files[ThisCase].items[j].metadata.update_reason = Missing

\* ------------------------------------------------------------------------
\* C13
\* ------------------------------------------------------------------------

\* C13 as claimed: on every store, create_consolidated_item with a component
\* that has a type succeeds, appends one item whose id no item of the store
\* had and whose source_item_ids are the given ones, and leaves every item
\* the store had as it was.
C13_AsClaimed ==
    \A srcs \in {<<>>, <<AbsentId>>, <<CardId, AbsentId>>} :
       LET before == FinalItems(files, ThisCase)
           out == execute_control_function(
                      files, ConsolidateCall(ThisCase, TotalCard, srcs), now)
           after == FinalItems(out.files, ThisCase)
       IN  /\ ResultSuccess(out.result)
           /\ Len(after) = Len(before) + 1
           /\ SubSeq(after, 1, Len(before)) = before
           /\ Last(after).source_item_ids = srcs
           /\ Last(after).component = TotalCard
           /\ Last(after).id \notin Ids(before)

\* ------------------------------------------------------------------------
\* C17
\* ------------------------------------------------------------------------

\* C17 as claimed: the component of every item of every store has a type.
C17_AsClaimed ==
    \A c \in Cases :
       \A i \in 1..Len(files[c].items) :
          files[c].items[i].component.type # Missing

\* ------------------------------------------------------------------------
\* Specification of the pre-pass: runs, with an oracle that stays silent, on
\* every store of at most MaxStore items out of Pool
\* ------------------------------------------------------------------------

FiveCard == Component("metric_card", Missing, "Revenue", "5")
IntFiveCard == Component("metric_card", Missing, "Revenue", IntFive)
\* a table that has its name as label and a value
CostLabelTable == Component("data_table", Missing, "Cost", "5M")
\* two cards whose label and value differ and whose unique_key is the same
BarLabelCard == Component("metric_card", Missing, "Revenue|5", "M")
BarValueCard == Component("metric_card", Missing, "Revenue", "5|M")

\* items as generation builds them; of two items with the same component
\* the one of file f1 was created later
Pool ==
    {GeneratedItem(ThisCase, "f1", "create_metric_card", RevenueCard, 1),
     GeneratedItem(ThisCase, "f2", "create_metric_card", RevenueCard, 0),
     GeneratedItem(ThisCase, "f1", "create_metric_card", FiveCard, 1),
     GeneratedItem(ThisCase, "f2", "create_metric_card", IntFiveCard, 0),
     GeneratedItem(ThisCase, "f1", "create_data_table", CostTable, 1),
     GeneratedItem(ThisCase, "f2", "create_data_table", CostLabelTable, 0),
     GeneratedItem(ThisCase, "f1", "create_metric_card", BarLabelCard, 0),
     GeneratedItem(ThisCase, "f2", "create_metric_card", BarValueCard, 0)}

Stores == UNION {[1..n -> Pool] : n \in 0..MaxStore}

DedupInit ==
    /\ \E its \in Stores :
          files = [c \in Cases |->
                      IF c = ThisCase
                      THEN [NoFile EXCEPT !.exists = TRUE, !.items = its]
                      ELSE NoFile]
    /\ now = 0
    /\ pc = "idle"
    /\ runs = 0
    /\ case_name = ThisCase
    /\ loaded = <<>>
    /\ items = <<>>
    /\ duplicates_removed = 0
    /\ iteration_count = 0
    /\ optimization_complete = FALSE
    /\ optimization_actions = <<>>
    /\ iteration_actions = <<>>
    /\ tool_calls = <<>>
    /\ oracle_calls = 0
    /\ exit = "none"
    /\ report = NoReport

DedupNext ==
    \/ RunOptimization
    \/ OracleResponds({})
    \/ Return

DedupSpec == DedupInit /\ [][DedupNext]_vars

\* the pre-pass of a run has acted (the run found items)
PrepassDone ==
    /\ pc \in {"oracle", "done"}
    /\ exit \notin {"no_file", "load_exception", "empty"}

\* ------------------------------------------------------------------------
\* C14
\* ------------------------------------------------------------------------

\* the positions of seq that no earlier position has the unique_key of
FirstPositions(seq) ==
    {i \in 1..Len(seq) :
        \A j \in 1..(i - 1) : UniqueKey(seq[j]) # UniqueKey(seq[i])}

\* the k-th position, in increasing order, of a set of positions
NthOf(positions, k) ==
    CHOOSE i \in positions : Cardinality({j \in positions : j < i}) = k - 1

\* C14: after the pre-pass the items of the run, and the store, are the
\* items loaded at the first position of each unique_key, in the order they
\* were loaded: of the items of one key the earliest in store order stays and
\* the later ones go, whatever their created_at.
C14_FirstInStoreOrderWins ==
    PrepassDone =>
       /\ Len(items) = Cardinality(FirstPositions(loaded))
       /\ \A k \in 1..Len(items) :
             items[k] = loaded[NthOf(FirstPositions(loaded), k)]
       /\ files[case_name].items = items
       /\ duplicates_removed = Len(loaded) - Len(items)

\* a pre-pass that kept an item created in second 1 and dropped the item
\* of the same key that came after it and was created in second 0
C14_Witness ==
    /\ PrepassDone
    /\ Len(loaded) = 2
    /\ UniqueKey(loaded[1]) = UniqueKey(loaded[2])
    /\ loaded[1].created_at > loaded[2].created_at
    /\ items = <<loaded[1]>>
    /\ files[case_name].items = <<loaded[1]>>

\* ------------------------------------------------------------------------
\* C15
\* ------------------------------------------------------------------------

\* C15: the pre-pass of a run that follows another run (whose oracle made
\* no change) removes nothing: it finds the store the first pre-pass left,
\* keeps all of it, and does not write the store.
C15_SecondPassRemovesNothing ==
    /\ []((runs = 2 /\ PrepassDone) =>
             /\ duplicates_removed = 0
             /\ items = loaded
             /\ files[case_name].items = loaded)
    /\ [][(runs = 1 /\ pc = "idle" /\ pc' # "idle") =>
             /\ files' = files
             /\ loaded' = files[ThisCase].items]_vars

\* the second pre-pass on a store of two items with two keys
C15_Witness ==
    /\ runs = 2
    /\ PrepassDone
    /\ Len(loaded) = 2
    /\ UniqueKey(loaded[1]) # UniqueKey(loaded[2])
    /\ duplicates_removed = 0
    /\ files[case_name].items = loaded

\* ------------------------------------------------------------------------
\* C16
\* ------------------------------------------------------------------------

\* the dedup key as a tuple: (type, title or else label, value as a string)
\* for a metric card, (type, title or else label) for every other type
TupleKey(item) ==
    LET component == item.component
        type == Get(component, "type", "")
        title_or_label ==
            IF Truthy(Get(component, "title", ""))
            THEN component.title
            ELSE Get(component, "label", "")
    IN  IF type = "metric_card"
        THEN <<type, title_or_label, Str(Get(component, "value", ""))>>
        ELSE <<type, title_or_label>>

\* the positions of seq that no earlier position has the tuple key of
FirstTuplePositions(seq) ==
    {i \in 1..Len(seq) :
        \A j \in 1..(i - 1) : TupleKey(seq[j]) # TupleKey(seq[i])}

\* C16 as claimed: the pre-pass drops an item exactly when an earlier item
\* has the same tuple key, so the items it keeps are those at the first
\* position of each tuple key, and two items whose tuples differ both stay.
C16_AsClaimed ==
    PrepassDone =>
       /\ Len(items) = Cardinality(FirstTuplePositions(loaded))
       /\ \A k \in 1..Len(items) :
             items[k] = loaded[NthOf(FirstTuplePositions(loaded), k)]

\* ------------------------------------------------------------------------
\* C18
\* ------------------------------------------------------------------------

\* a call of a control function, on the store fs, with arguments that do
\* not meet what its handler needs: a required field is missing, the id
\* names no item, the component has no type
ViolatesPreconditions(call, fs) ==
    /\ call.name \in ControlFunctions
    /\ \/ call.args = "bad_fields"
       \/ /\ call.name \in {"delete_dashboard_item", "update_dashboard_item"}
          /\ call.item_id \notin Ids(FinalItems(fs, call.case_name))
       \/ /\ call.name = "analyze_item_similarity"
          /\ {call.item_id, call.item_id_2}
                \ Ids(FinalItems(fs, call.case_name)) # {}
       \/ /\ call.name = "create_consolidated_item"
          /\ call.component.type = Missing

\* C18 as claimed: execute_control_function returns a result for every call:
\* for an unknown name a result with an error, and for a control function
\* whose arguments violate its preconditions a result with success = false
\* and an error.
C18_AsClaimed ==
    \A call \in StoreCalls(files) :
       LET result == execute_control_function(files, call, now).result IN
       /\ call.name \notin ControlFunctions => result.error # ""
       /\ ViolatesPreconditions(call, files) =>
             /\ result.has_success
             /\ ~result.success
             /\ result.error # ""

\* ------------------------------------------------------------------------
\* C19
\* ------------------------------------------------------------------------

\* the tool calls of the turn as the oracle sent them: those that have run,
\* as logged, followed by those still to run
Turn ==
    [k \in 1..Len(iteration_actions) |-> iteration_actions[k].arguments]
       \o tool_calls

\* a record of a delete_dashboard_item that reported success
Deleted(record) ==
    /\ record.function = "delete_dashboard_item"
    /\ ResultSuccess(record.result)

\* C19: the tool calls of a response run one at a time in the order
\* received: each step of a turn takes the first call not yet run and
\* appends its record to the log of the turn and to the log of the run (or
\* aborts the run with nothing logged), so that the calls run so
\* far followed by the calls still to run are always the response as
\* received. A call that fails (or whose arguments abort the run) leaves the
\* store as the earlier calls of the turn left it: what a delete that
\* succeeded has removed stays removed.
C19_InOrderNoRollback ==
    /\ [](\A k \in 1..Len(optimization_actions) :
             Deleted(optimization_actions[k]) =>
                optimization_actions[k].arguments.item_id
                   \notin Ids(FinalItems(files, case_name)))
    /\ [][pc = "calls" =>
            /\ Turn' = Turn
            /\ IF Head(tool_calls).args = "unparsable"
               THEN /\ files' = files
                    /\ optimization_actions' = optimization_actions
               ELSE /\ Len(iteration_actions') = Len(iteration_actions) + 1
                    /\ Len(optimization_actions') = Len(optimization_actions) + 1
                    /\ Last(optimization_actions') = Last(iteration_actions')
                    /\ Last(iteration_actions').arguments = Head(tool_calls)
                    /\ Last(iteration_actions').iteration = iteration_count
                    /\ SubSeq(optimization_actions', 1, Len(optimization_actions))
                          = optimization_actions
                    /\ ~ResultSuccess(Last(iteration_actions').result)
                          => files' = files]_vars

\* a turn whose first call, a delete, succeeded and whose second call
\* failed, with the item still gone
C19_Witness ==
    /\ Len(iteration_actions) >= 2
    /\ Deleted(iteration_actions[1])
    /\ ~ResultSuccess(iteration_actions[2].result)
    /\ iteration_actions[1].arguments.item_id
          \notin Ids(FinalItems(files, case_name))
    /\ Len(loaded) = 1

\* ------------------------------------------------------------------------
\* C20
\* ------------------------------------------------------------------------

\* Specification of a server that gets requests to generate the dashboard
\* of one case from two files, with an oracle that deletes the card of the
\* first file or marks the run complete
ServeCalls == {DeleteCall(ThisCase, CardId), MarkCall(ThisCase, 0)}

ServeNext ==
    \/ Generate("f1", LoopGens)
    \/ Generate("f2", LoopGens)
    \/ OracleResponds(ServeCalls)
    \/ ExecuteToolCall
    \/ Tick
    \/ Return

ServeSpec == Init /\ [][ServeNext]_vars

\* a request is being served: a run is between its load of the store and
\* its return
Serving == pc \in {"oracle", "calls"}

\* the server takes up another request for the same case
TakesUpRequest == Generate("f1", LoopGens) \/ Generate("f2", LoopGens)

StartStores ==
    {NoFile, Corrupt} \cup {[NoFile EXCEPT !.exists = TRUE, !.items = its] :
                               its \in UNION {[1..n -> Pool] : n \in 0..MaxItems}}

StartInit ==
    /\ files \in [Cases -> StartStores]
    /\ files["C2"] = NoFile
    /\ now = 0
    /\ pc = "idle"
    /\ runs = 0
    /\ case_name = ThisCase
    /\ loaded = <<>>
    /\ items = <<>>
    /\ duplicates_removed = 0
    /\ iteration_count = 0
    /\ optimization_complete = FALSE
    /\ optimization_actions = <<>>
    /\ iteration_actions = <<>>
    /\ tool_calls = <<>>
    /\ oracle_calls = 0
    /\ exit = "none"
    /\ report = NoReport

StartCalls == {ListCall(ThisCase)}

StartNext ==
    \/ RunOptimization
    \/ OracleResponds(StartCalls)
    \/ ExecuteToolCall
    \/ Return

StartSpec == StartInit /\ [][StartNext]_vars

\* ------------------------------------------------------------------------
\* C21
\* ------------------------------------------------------------------------

\* items.json of the case is missing, or json.load raises on it
Unloadable(fs, case) == ~fs[case].exists \/ ~fs[case].readable

\* C21: a run started on a case whose item document is missing or unreadable
\* returns a report with success = false and an error, makes no oracle
\* request, and leaves the files as they were.
C21_UnloadableStoreFailsRun ==
    [][(pc = "idle" /\ pc' # "idle" /\ Unloadable(files, ThisCase)) =>
          /\ pc' = "done"
          /\ report'.keys = "error"
          /\ ~report'.success
          /\ oracle_calls' = 0
          /\ files' = files]_vars

\* a run has returned from the outer except on an unreadable document
C21_Witness ==
    /\ pc = "done"
    /\ exit = "load_exception"
    /\ files[ThisCase].exists
    /\ ~files[ThisCase].readable
    /\ report = ErrorReport

\* ------------------------------------------------------------------------
\* Specification of the control functions on the store of a case: generations,
\* runs whose oracle stays silent, and every control function called with
\* arguments of its schema, on present and absent ids, from the absent
\* document on
\* ------------------------------------------------------------------------

HandlerCalls(fs) ==
         {ListCall(ThisCase), StatisticsCall(ThisCase), MarkCall(ThisCase, 0)}
    \cup {DeleteCall(ThisCase, id) : id \in KnownIds(fs)}
    \cup {UpdateCall(ThisCase, id, TotalCard) : id \in KnownIds(fs)}
    \cup {ConsolidateCall(ThisCase, TotalCard, <<>>)}
    \cup {AnalyzeCall(ThisCase, id1, id2) :
            id1 \in KnownIds(fs), id2 \in KnownIds(fs)}

HandlerNext ==
    \/ Generate("f1", UpdateGens)
    \/ OracleResponds({})
    \/ \E call \in HandlerCalls(files) : ControlCall(call)
    \/ Tick
    \/ Return

HandlerSpec == Init /\ [][HandlerNext]_vars

\* ------------------------------------------------------------------------
\* C22
\* ------------------------------------------------------------------------

\* C22: on a case without items.json, list_dashboard_items reports success
\* with count 0 and creates nothing; update_dashboard_item and
\* delete_dashboard_item report a failure and create nothing;
\* create_consolidated_item with a component of its schema creates the
\* document, which then holds the new item and nothing else.
C22_AbsentDocument ==
    \A c \in Cases :
       ~files[c].exists =>
          LET listed == execute_control_function(files, ListCall(c), now)
              deleted == execute_control_function(
                             files, DeleteCall(c, AbsentId), now)
              updated == execute_control_function(
                             files, UpdateCall(c, AbsentId, TotalCard), now)
              created == execute_control_function(
                             files, ConsolidateCall(c, TotalCard, <<CardId>>),
                             now)
          IN  /\ ResultSuccess(listed.result)
              /\ listed.result.count = 0
              /\ listed.files = files
              /\ deleted.result.has_success /\ ~deleted.result.success
              /\ deleted.files = files
              /\ updated.result.has_success /\ ~updated.result.success
              /\ updated.files = files
              /\ ResultSuccess(created.result)
              /\ created.files[c].exists
              /\ Len(created.files[c].items) = 1
              /\ created.files[c].items[1].component = TotalCard
              /\ created.files[c].items[1].source_item_ids = <<CardId>>
              /\ \A d \in Cases \ {c} : created.files[d] = files[d]

\* create_consolidated_item has created the document of the case, which had
\* none: it holds the consolidated item and nothing else
C22_Witness ==
    /\ files[ThisCase].exists
    /\ Len(files[ThisCase].items) = 1
    /\ files[ThisCase].items[1].analysis_type = "consolidated_analysis"
    /\ files[ThisCase].items[1].component = TotalCard
    /\ runs = 0

\* ------------------------------------------------------------------------
\* C23
\* ------------------------------------------------------------------------

\* a from position i on is b from position j on with items taken out
RECURSIVE IsSubseq(_, _, _, _)
IsSubseq(a, b, i, j) ==
    IF i > Len(a) THEN TRUE
    ELSE IF j > Len(b) THEN FALSE
    ELSE IF a[i] = b[j] THEN IsSubseq(a, b, i + 1, j + 1)
    ELSE IsSubseq(a, b, i, j + 1)

Items(seq) == {seq[i] : i \in 1..Len(seq)}

\* after is before with items taken out, followed by items before had not
RemovedAndAppended(before, after) ==
    \E k \in 0..Len(after) :
       /\ IsSubseq(SubSeq(after, 1, k), before, 1, 1)
       /\ \A j \in (k + 1)..Len(after) : after[j] \notin Items(before)

\* after is before with the item at one position, which has the id, changed
\* and keeping its id
UpdatedInPlace(before, after, item_id) ==
    /\ Len(after) = Len(before)
    /\ \E k \in 1..Len(before) :
          /\ before[k].id = item_id
          /\ after[k].id = item_id
          /\ \A j \in 1..Len(before) : j # k => after[j] = before[j]

\* what a rewrite by the call may do to the order of the items
KeepsOrder(call, before, after) ==
    CASE call.name = "delete_dashboard_item" ->
            IsSubseq(after, before, 1, 1)
      [] call.name = "update_dashboard_item" ->
            after = before \/ UpdatedInPlace(before, after, call.item_id)
      [] call.name = "create_consolidated_item" ->
            /\ Len(after) = Len(before) + 1
            /\ SubSeq(after, 1, Len(before)) = before
      [] OTHER -> after = before

\* C23: every rewrite of the store keeps the relative order of the items
\* that remain: a delete and the pre-pass only take items out, an update
\* changes one item where it stands, a consolidation adds its item at the
\* end, and a generation (with the pre-pass of the run it starts) takes
\* items out and adds its new items at the end.
C23_RewritesKeepOrder ==
    /\ [](/\ \A call \in HandlerCalls(files) :
               KeepsOrder(call, FinalItems(files, ThisCase),
                          FinalItems(execute_control_function(
                                         files, call, now).files, ThisCase))
          /\ IsSubseq(Deduplicate(FinalItems(files, ThisCase)),
                      FinalItems(files, ThisCase), 1, 1))
    /\ [][RemovedAndAppended(FinalItems(files, ThisCase),
                             FinalItems(files', ThisCase))
          \/ \E call \in HandlerCalls(files) :
                /\ files' = execute_control_function(files, call, now).files
                /\ pc' = pc]_vars

\* a store whose first item was generated and then updated, and whose
\* second item a consolidation added after it
C23_Witness ==
    /\ Len(files[ThisCase].items) = 2
    /\ files[ThisCase].items[1].analysis_type = "file_analysis"
    /\ files[ThisCase].items[1].metadata.update_reason = "merged_duplicates"
    /\ files[ThisCase].items[2].analysis_type = "consolidated_analysis"

\* ------------------------------------------------------------------------
\* Specification of the counts of the report: a generation of cards and
\* tables, some of them duplicates, and a run whose oracle deletes items and
\* creates consolidated ones
\* ------------------------------------------------------------------------

\* the id generation gives a data table of file f1 in second 0
TableId == "C1_f1_create_data_table_0"

TallyCalls ==
    {DeleteCall(ThisCase, CardId),
     ConsolidateCall(ThisCase, TotalCard, <<CardId, TableId>>)}

TallyNext ==
    \/ Generate("f1", UpdateGens)
    \/ OracleResponds(TallyCalls)
    \/ ExecuteToolCall

TallySpec == Init /\ [][TallyNext]_vars

\* ------------------------------------------------------------------------
\* C24
\* ------------------------------------------------------------------------

\* the items the run had after its pre-pass that the loop took out of the
\* store
LoopRemoved ==
    Cardinality({i \in 1..Len(items) :
                    items[i] \notin Items(FinalItems(files, case_name))})

\* the items of the store that the loop added
LoopCreated ==
    LET final_items == FinalItems(files, case_name) IN
    Cardinality({j \in 1..Len(final_items) : final_items[j] \notin Items(items)})

\* C24 as claimed: in the final report original_item_count is the number of
\* items after the pre-pass plus the number the pre-pass removed, and
\* items_removed = original_item_count - final_item_count = the number the
\* pre-pass removed + the number the loop removed.
C24_AsClaimed ==
    (pc = "done" /\ report.keys = "full") =>
       /\ report.original_item_count = Len(items) + duplicates_removed
       /\ report.original_item_count = Len(loaded)
       /\ report.duplicates_removed_preprocessing = duplicates_removed
       /\ report.items_removed
             = report.original_item_count - report.final_item_count
       /\ report.items_removed = duplicates_removed + LoopRemoved

\* C24, amended: in the final report original_item_count is the number of
\* items after the pre-pass plus the number the pre-pass removed, and
\* items_removed = original_item_count - final_item_count = the number the
\* pre-pass removed + the number the loop removed - the number the loop
\* created.
C24_RemovalsNetOfCreations ==
    (pc = "done" /\ report.keys = "full") =>
       /\ report.original_item_count = Len(items) + duplicates_removed
       /\ report.original_item_count = Len(loaded)
       /\ report.duplicates_removed_preprocessing = duplicates_removed
       /\ report.items_removed
             = report.original_item_count - report.final_item_count
       /\ report.items_removed
             = duplicates_removed + LoopRemoved - LoopCreated

\* the report of a run whose pre-pass removed a duplicate and whose loop
\* deleted an item and created one
C24_Witness ==
    /\ pc = "done"
    /\ report.keys = "full"
    /\ duplicates_removed = 1
    /\ LoopRemoved = 1
    /\ LoopCreated = 1
    /\ report.items_removed = 1

\* ------------------------------------------------------------------------
\* Specification of the similarity analysis: a run on a store of cards and
\* tables of two files, some of them updated to a component that has a type
\* and nothing else, whose oracle analyzes a pair of items and updates a
\* component
\* ------------------------------------------------------------------------

\* a component that has a type and nothing else
BareTable == Component("data_table", Missing, Missing, Missing)

\* the item with the component and the stamps an update gives it
Updated(item, component) ==
    [item EXCEPT !.component = component,
                 !.metadata.last_updated = 0,
                 !.metadata.update_reason = "merged_duplicates"]

\* the items of the stores: a card and a table of file f1, a table of file
\* f2, and the card and the table of file f1 as an update to BareTable
\* leaves them
SimPool ==
    {GeneratedItem(ThisCase, "f1", "create_metric_card", RevenueCard, 0),
     GeneratedItem(ThisCase, "f1", "create_data_table", CostTable, 0),
     GeneratedItem(ThisCase, "f2", "create_data_table", CostTable, 0),
     Updated(GeneratedItem(ThisCase, "f1", "create_metric_card", RevenueCard, 0),
             BareTable),
     Updated(GeneratedItem(ThisCase, "f1", "create_data_table", CostTable, 0),
             BareTable)}

\* the stores a run starts on: two items
SimStores == [1..2 -> SimPool]

\* the state before the first request, items.json of the case holding one
\* of stores
StoreInit(stores) ==
    /\ \E its \in stores :
          files = [c \in Cases |->
                      IF c = ThisCase
                      THEN [NoFile EXCEPT !.exists = TRUE, !.items = its]
                      ELSE NoFile]
    /\ now = 0
    /\ pc = "idle"
    /\ runs = 0
    /\ case_name = ThisCase
    /\ loaded = <<>>
    /\ items = <<>>
    /\ duplicates_removed = 0
    /\ iteration_count = 0
    /\ optimization_complete = FALSE
    /\ optimization_actions = <<>>
    /\ iteration_actions = <<>>
    /\ tool_calls = <<>>
    /\ oracle_calls = 0
    /\ exit = "none"
    /\ report = NoReport

SimInit == StoreInit(SimStores)

SimCalls ==
    {AnalyzeCall(ThisCase, CardId, TableId),
     UpdateCall(ThisCase, TableId, RevenueCard)}

SimNext ==
    \/ RunOptimization
    \/ OracleResponds(SimCalls)
    \/ ExecuteToolCall

SimSpec == SimInit /\ [][SimNext]_vars

\* ------------------------------------------------------------------------
\* C25
\* ------------------------------------------------------------------------

\* the first item of the store with the id
ItemOf(fs, case, item_id) ==
    fs[case].items[FirstIndex(fs[case].items, item_id, 1)]

\* the result of analyze_item_similarity on two ids of the store
Analysis(item_id_1, item_id_2) ==
    execute_control_function(
        files, AnalyzeCall(ThisCase, item_id_1, item_id_2), now).result

SameType(item1, item2) == item1.component.type = item2.component.type

\* the same title (or label, for a component without a title)
SameTitle(item1, item2) ==
    TitleOf(item1.component) = TitleOf(item2.component)

SameSource(item1, item2) ==
    /\ Get(item1, "source_file", "") = Get(item2, "source_file", "")
    /\ Truthy(Get(item1, "source_file", ""))

SameValue(item1, item2) ==
    /\ Get(item1.component, "value", "") = Get(item2.component, "value", "")
    /\ Truthy(Get(item1.component, "value", ""))

BothCards(item1, item2) ==
    /\ item1.component.type = "metric_card"
    /\ item2.component.type = "metric_card"

\* the two items agree on every factor
AgreeOnAll(item1, item2) ==
    /\ SameType(item1, item2)
    /\ SameTitle(item1, item2)
    /\ SameSource(item1, item2)
    /\ BothCards(item1, item2) => SameValue(item1, item2)

\* the two items agree on no factor
AgreeOnNone(item1, item2) ==
    /\ ~SameType(item1, item2)
    /\ Words(TitleOf(item1.component)) \cap Words(TitleOf(item2.component)) = {}
    /\ ~SameSource(item1, item2)
    /\ ~(BothCards(item1, item2) /\ SameValue(item1, item2))

\* the score of the result is the whole number n
Scores(result, n) == result.count = n * result.den

\* the sum of the weights of the factors that apply to the pair
FullScore(item1, item2) ==
    30 + 40 + 20 + (IF BothCards(item1, item2) THEN 10 ELSE 0)

\* C25 as claimed: for every pair of items of the store the analysis succeeds
\* with a score from 0 to 100; a pair that agrees on every factor (type,
\* title or label, non-empty source_file and, for two metric cards,
\* non-empty value) scores 30 + 40 + 20, plus 10 for metric cards, and a
\* pair that agrees on no factor scores 0.
C25_AsClaimed ==
    \A id1, id2 \in Ids(FinalItems(files, ThisCase)) :
       LET item1 == ItemOf(files, ThisCase, id1)
           item2 == ItemOf(files, ThisCase, id2)
           result == Analysis(id1, id2)
       IN  /\ ResultSuccess(result)
           /\ 0 <= result.count
           /\ result.count <= 100 * result.den
           /\ AgreeOnAll(item1, item2) =>
                 Scores(result, FullScore(item1, item2))
           /\ AgreeOnNone(item1, item2) => Scores(result, 0)

\* C25, amended: as claimed, for the pairs that agree on every factor and
\* whose common title (or label) has at least one word.
C25_ScoreOfAgreeingPairs ==
    \A id1, id2 \in Ids(FinalItems(files, ThisCase)) :
       LET item1 == ItemOf(files, ThisCase, id1)
           item2 == ItemOf(files, ThisCase, id2)
           result == Analysis(id1, id2)
       IN  /\ ResultSuccess(result)
           /\ 0 <= result.count
           /\ result.count <= 100 * result.den
           /\ (AgreeOnAll(item1, item2)
                   /\ Words(TitleOf(item1.component)) # {}) =>
                 Scores(result, FullScore(item1, item2))
           /\ AgreeOnNone(item1, item2) => Scores(result, 0)

\* the oracle has analyzed two items of one file that an update has given
\* the same type, label and value: the logged score is 100
C25_Witness ==
    /\ optimization_actions # <<>>
    /\ Last(optimization_actions).function = "analyze_item_similarity"
    /\ ResultSuccess(Last(optimization_actions).result)
    /\ Scores(Last(optimization_actions).result, 100)
    /\ AgreeOnAll(ItemOf(files, ThisCase, CardId),
                  ItemOf(files, ThisCase, TableId))
    /\ FinalItems(files, ThisCase)[1].id = CardId
    /\ FinalItems(files, ThisCase)[2].id = TableId

\* ------------------------------------------------------------------------
\* Specification of a run whose oracle names cases in the arguments of its
\* tool calls: the case of the run, or another one
\* ------------------------------------------------------------------------

OtherCase == "C2"

CrossCalls ==
    {MarkCall(ThisCase, 7),
     MarkCall(OtherCase, 1),
     ConsolidateCall(OtherCase, TotalCard, <<CardId>>)}

CrossNext ==
    \/ Generate("f1", LoopGens)
    \/ OracleResponds(CrossCalls)
    \/ ExecuteToolCall

CrossSpec == Init /\ [][CrossNext]_vars

\* ------------------------------------------------------------------------
\* C26
\* ------------------------------------------------------------------------

\* the log mark_optimization_complete writes for the call of a record
LogOf(record) ==
    [written |-> TRUE, summary |-> record.arguments.text,
     final_item_count |-> record.arguments.final_item_count,
     optimization_completed |-> TRUE]

\* the next step of the run executes a mark_optimization_complete
MarkingStep ==
    /\ pc = "calls"
    /\ tool_calls # <<>>
    /\ Head(tool_calls).name = "mark_optimization_complete"

\* C26 as claimed: when a run has ended after a mark_optimization_complete
\* that reported success, the log of the case of the run is the one slot
\* holding the summary and the final_item_count of that call with
\* optimization_completed = true; and no step of a run other than a
\* mark_optimization_complete changes the log of any case.
C26_AsClaimed ==
    /\ [](pc = "done" =>
             \A k \in 1..Len(optimization_actions) :
                MarkedComplete(optimization_actions[k]) =>
                   files[case_name].log = LogOf(optimization_actions[k]))
    /\ [][MarkingStep
             \/ \A c \in Cases : files'[c].log = files[c].log]_vars

\* ------------------------------------------------------------------------
\* C28
\* ------------------------------------------------------------------------

\* C28 as claimed: no step of a run changes the item store or the log of a
\* case other than the case of the run.
C28_AsClaimed ==
    [][\A c \in Cases \ {case_name'} : files'[c] = files[c]]_vars

\* ------------------------------------------------------------------------
\* Specification of the place of the pre-pass in a run: runs on every store
\* of at most MaxStore items out of OncePool, with an oracle that updates
\* the table to the component of the cards
\* ------------------------------------------------------------------------

\* the id of the table of OncePool
LateTableId == "C1_f1_create_data_table_1"

\* two cards of one unique_key and a table
OncePool ==
    {GeneratedItem(ThisCase, "f1", "create_metric_card", RevenueCard, 1),
     GeneratedItem(ThisCase, "f2", "create_metric_card", RevenueCard, 0),
     GeneratedItem(ThisCase, "f1", "create_data_table", CostTable, 1)}

OnceStores == UNION {[1..n -> OncePool] : n \in 0..MaxStore}

OnceInit == StoreInit(OnceStores)

OnceCalls == {UpdateCall(ThisCase, LateTableId, RevenueCard)}

OnceNext ==
    \/ RunOptimization
    \/ OracleResponds(OnceCalls)
    \/ ExecuteToolCall

OnceSpec == OnceInit /\ [][OnceNext]_vars

\* ------------------------------------------------------------------------
\* C27
\* ------------------------------------------------------------------------

\* the items of seq at the first position of each unique_key, in the order
\* of seq
FirstWins(seq) ==
    [k \in 1..Cardinality(FirstPositions(seq)) |->
        seq[NthOf(FirstPositions(seq), k)]]

\* the run is about to make its first oracle request
AtFirstOracleCall == pc = "oracle" /\ oracle_calls = 0

\* C27: the pre-pass runs once per run and before the first oracle request:
\* when the run is about to make its first request the store is the
\* first-wins deduplication of the store loaded at the start, which the
\* start of the run rewrites only when it holds a duplicate; after that no
\* step of the run changes items or duplicates_removed, and the store
\* changes only by a tool call; the final report's
\* duplicates_removed_preprocessing is the number of items the pre-pass
\* dropped.
C27_PrepassOnceBeforeOracle ==
    /\ [](AtFirstOracleCall =>
             /\ FinalItems(files, case_name) = FirstWins(loaded)
             /\ items = FirstWins(loaded)
             /\ duplicates_removed = Len(loaded) - Len(FirstWins(loaded)))
    /\ []((pc = "done" /\ report.keys = "full") =>
             report.duplicates_removed_preprocessing
                = Len(loaded) - Len(FirstWins(loaded)))
    /\ [][(pc = "idle" /\ pc' # "idle"
              /\ FirstWins(FinalItems(files, ThisCase))
                    = FinalItems(files, ThisCase)) =>
             files' = files]_vars
    /\ [][pc # "idle" =>
             /\ items' = items
             /\ duplicates_removed' = duplicates_removed
             /\ loaded' = loaded
             /\ files' = files \/ pc = "calls"]_vars

\* a run whose pre-pass dropped one item and whose loop then made two items
\* of one unique_key, which stay in the store: the report counts the one
\* item of the pre-pass
C27_Witness ==
    /\ pc = "done"
    /\ report.keys = "full"
    /\ report.duplicates_removed_preprocessing = 1
    /\ Len(loaded) = 3
    /\ Len(FinalItems(files, case_name)) = 2
    /\ UniqueKey(FinalItems(files, case_name)[1])
          = UniqueKey(FinalItems(files, case_name)[2])

\* ------------------------------------------------------------------------
\* C29
\* ------------------------------------------------------------------------

\* C29 as claimed: the metadata.component_type of every item of every store
\* is the type of its component.
C29_AsClaimed ==
    \A c \in Cases :
       \A i \in 1..Len(files[c].items) :
          files[c].items[i].metadata.component_type
             = files[c].items[i].component.type

\* ------------------------------------------------------------------------
\* Specification of a run whose oracle asks for the statistics of the store,
\* marks the optimization complete, and deletes
\* ------------------------------------------------------------------------

FrameCalls ==
    {StatisticsCall(ThisCase),
     MarkCall(ThisCase, 1),
     DeleteCall(ThisCase, CardId)}

FrameNext ==
    \/ Generate("f1", LoopGens)
    \/ OracleResponds(FrameCalls)
    \/ ExecuteToolCall

FrameSpec == Init /\ [][FrameNext]_vars

\* ------------------------------------------------------------------------
\* C30
\* ------------------------------------------------------------------------

\* items.json of a case: all of DashboardLib/<case>/ but the log
ItemStore(fs, c) ==
    [exists |-> fs[c].exists, readable |-> fs[c].readable,
     items |-> fs[c].items]

ReadOnlyFunctions ==
    {"list_dashboard_items", "analyze_item_similarity", "get_item_statistics",
     "mark_optimization_complete"}

WritingFunctions ==
    {"delete_dashboard_item", "update_dashboard_item",
     "create_consolidated_item"}

\* the calls of the read-only functions on the store fs: on present and
\* absent ids, on a case with and without items.json, with arguments of the
\* schema and with wrong ones
ReadOnlyCalls(fs) ==
    LET well_formed ==
            UNION {{ListCall(c), StatisticsCall(c), MarkCall(c, 1)}
                   \cup {AnalyzeCall(c, id1, id2) :
                           id1 \in KnownIds(fs), id2 \in KnownIds(fs)} :
                   c \in Cases}
    IN  well_formed \cup {BadFields(call) : call \in well_formed}

\* C30: list_dashboard_items, analyze_item_similarity, get_item_statistics
\* and mark_optimization_complete leave items.json of every case as it was,
\* whether they report success or not; and a step of a run changes
\* items.json only when it is the start of the run (the pre-pass) or
\* executes a delete_dashboard_item, an update_dashboard_item or a
\* create_consolidated_item.
C30_ReadOnlyActions ==
    /\ [](\A call \in ReadOnlyCalls(files) :
             \A c \in Cases :
                ItemStore(execute_control_function(files, call, now).files, c)
                   = ItemStore(files, c))
    /\ [][(pc # "idle"
              /\ \E c \in Cases : ItemStore(files', c) # ItemStore(files, c)) =>
             /\ pc = "calls"
             /\ Head(tool_calls).name \in WritingFunctions]_vars

\* a run whose oracle asked for the statistics and marked the optimization
\* complete: the store is as the run loaded it
C30_Witness ==
    /\ pc = "done"
    /\ Len(optimization_actions) = 2
    /\ \A k \in 1..2 : ResultSuccess(optimization_actions[k].result)
    /\ optimization_actions[1].function = "get_item_statistics"
    /\ optimization_actions[2].function = "mark_optimization_complete"
    /\ loaded # <<>>
    /\ FinalItems(files, case_name) = loaded
    /\ files[case_name].log.written
====
